---------------------------- MODULE Spec2Model ----------------------------
(***************************************************************************)
(* Model of dn42_route_parse (src/src/main.rs): the registry's filter      *)
(* files are parsed into one ordered filter list, every route object of    *)
(* data/route and data/route6 is parsed and reconciled against that list,  *)
(* and the resulting ROAs are written out with their metadata.             *)
(*                                                                         *)
(* Text is a sequence of one-character strings, so that splitting, case    *)
(* folding and number parsing are computed as the code computes them.      *)
(* An Option is a sequence of length 0 (None) or 1 (Some), a Result is a   *)
(* record with the field ok.  An IP address is its family and its bits,    *)
(* most significant first, so that u32 and u128 keep their width.          *)
(***************************************************************************)
EXTENDS Integers, Sequences, FiniteSets, TLC

VARIABLES build, pc, filters, roas, errors, nread, last, output, probe

vars == <<build, pc, filters, roas, errors, nread, last, output, probe>>

---------------------------------------------------------------------------
(* Options and Results *)

None == << >>

Some(x) == <<x>>

IsSome(o) == Len(o) = 1

Ok(v) == [ok |-> TRUE, val |-> v]

Err(e) == [ok |-> FALSE, err |-> e]

---------------------------------------------------------------------------
(* Characters and strings *)

UpperLetters ==
  <<"A","B","C","D","E","F","G","H","I","J","K","L","M",
    "N","O","P","Q","R","S","T","U","V","W","X","Y","Z">>

LowerLetters ==
  <<"a","b","c","d","e","f","g","h","i","j","k","l","m",
    "n","o","p","q","r","s","t","u","v","w","x","y","z">>

HexDigits == <<"0","1","2","3","4","5","6","7","8","9","a","b","c","d","e","f">>

IndexOf(c, alphabet) == CHOOSE i \in 1..Len(alphabet) : alphabet[i] = c

InAlphabet(c, alphabet) == \E i \in 1..Len(alphabet) : alphabet[i] = c

UpperSet == {UpperLetters[i] : i \in 1..Len(UpperLetters)}

LowerSet == {LowerLetters[i] : i \in 1..Len(LowerLetters)}

LowerOf == [c \in UpperSet |-> LowerLetters[IndexOf(c, UpperLetters)]]

UpperOf == [c \in LowerSet |-> UpperLetters[IndexOf(c, LowerLetters)]]

(* char::to_ascii_lowercase *)
LowerChar(c) == IF c \in UpperSet THEN LowerOf[c] ELSE c

(* char::to_ascii_uppercase *)
UpperChar(c) == IF c \in LowerSet THEN UpperOf[c] ELSE c

(* str::to_ascii_lowercase *)
to_ascii_lowercase(s) == [i \in 1..Len(s) |-> LowerChar(s[i])]

(* str::to_ascii_uppercase *)
to_ascii_uppercase(s) == [i \in 1..Len(s) |-> UpperChar(s[i])]

(* char::is_whitespace, on the characters the inputs use *)
is_whitespace(c) == c \in {" ", "\t", "\r", "\n"}

IsDecDigit(c) == \E i \in 1..10 : HexDigits[i] = c

IsHexDigit(c) == InAlphabet(LowerChar(c), HexDigits)

DigitVal(c) == IndexOf(LowerChar(c), HexDigits) - 1

(* the elements of a set of numbers in increasing order *)
Sorted(S) ==
  [k \in 1..Cardinality(S) |-> CHOOSE i \in S : Cardinality({j \in S : j < i}) = k - 1]

(* str::split(sep) for a one-character separator: empty pieces are kept, *)
(* and the empty string gives one empty piece.                           *)
split(s, sep) ==
  LET at == Sorted({i \in 1..Len(s) : s[i] = sep})
      n  == Len(at)
  IN
  [k \in 1..(n + 1) |->
     SubSeq(s, IF k = 1 THEN 1 ELSE at[k - 1] + 1,
               IF k = n + 1 THEN Len(s) ELSE at[k] - 1)]

(* str::split_whitespace: the non-empty maximal runs of non-whitespace. *)
split_whitespace(s) ==
  LET first == Sorted({i \in 1..Len(s) :
                         ~is_whitespace(s[i]) /\ (i = 1 \/ is_whitespace(s[i - 1]))})
      final == Sorted({i \in 1..Len(s) :
                         ~is_whitespace(s[i]) /\ (i = Len(s) \/ is_whitespace(s[i + 1]))})
  IN
  [k \in 1..Len(first) |-> SubSeq(s, first[k], final[k])]

(* value of a string of digits in the given radix, most significant first *)
RECURSIVE DigitsValue(_, _, _)
DigitsValue(s, radix, acc) ==
  IF s = << >> THEN acc
  ELSE DigitsValue(Tail(s), radix, acc * radix + DigitVal(s[1]))

(* the n low bits of v, most significant first *)
RECURSIVE ToBits(_, _)
ToBits(v, n) ==
  IF n = 0 THEN << >> ELSE Append(ToBits(v \div 2, n - 1), v % 2)

RECURSIVE Flatten(_)
Flatten(ss) == IF ss = << >> THEN << >> ELSE ss[1] \o Flatten(Tail(ss))

Zeros(n) == [i \in 1..n |-> 0]

---------------------------------------------------------------------------
(* Number and address parsing (the standard library's FromStr) *)

U8Max == 255

(* u8::from_str: an optional '+', then at least one decimal digit, and a *)
(* value that fits eight bits.                                          *)
ParseU8(s) ==
  LET digits == IF s # << >> /\ s[1] = "+" THEN Tail(s) ELSE s IN
  IF digits = << >> \/ \E i \in 1..Len(digits) : ~IsDecDigit(digits[i])
  THEN Err("ParseIntError")
  ELSE IF Len(digits) > 3 /\ \E i \in 1..(Len(digits) - 3) : digits[i] # "0"
  THEN Err("ParseIntError")
  ELSE LET v == DigitsValue(digits, 10, 0) IN
       IF v > U8Max THEN Err("ParseIntError") ELSE Ok(v)

(* one octet of a dotted quad: one to three digits, no leading zero *)
OctetOk(p) ==
  /\ Len(p) \in 1..3
  /\ \A i \in 1..Len(p) : IsDecDigit(p[i])
  /\ (Len(p) > 1 => p[1] # "0")
  /\ DigitsValue(p, 10, 0) <= U8Max

(* Ipv4Addr::from_str *)
ParseIpv4(s) ==
  LET parts == split(s, ".") IN
  IF Len(parts) = 4 /\ \A i \in 1..4 : OctetOk(parts[i])
  THEN Ok([fam |-> "V4",
           bits |-> Flatten([i \in 1..4 |-> ToBits(DigitsValue(parts[i], 10, 0), 8)])])
  ELSE Err("AddrParseError")

(* one group of an IPv6 literal: one to four hexadecimal digits *)
GroupOk(g) == Len(g) \in 1..4 /\ \A i \in 1..Len(g) : IsHexDigit(g[i])

GroupsOf(s) == IF s = << >> THEN << >> ELSE split(s, ":")

GroupBits(gs) == Flatten([i \in 1..Len(gs) |-> ToBits(DigitsValue(gs[i], 16, 0), 16)])

(* Ipv6Addr::from_str, for literals without an embedded dotted quad: *)
(* eight groups, or fewer around one "::".                           *)
ParseIpv6(s) ==
  LET gaps == {i \in 1..(Len(s) - 1) : s[i] = ":" /\ s[i + 1] = ":"} IN
  IF gaps = {}
  THEN LET gs == GroupsOf(s) IN
       IF Len(gs) = 8 /\ \A i \in 1..8 : GroupOk(gs[i])
       THEN Ok([fam |-> "V6", bits |-> GroupBits(gs)])
       ELSE Err("AddrParseError")
  ELSE LET g  == CHOOSE i \in gaps : \A j \in gaps : i <= j
           hd == GroupsOf(SubSeq(s, 1, g - 1))
           tl == GroupsOf(SubSeq(s, g + 2, Len(s)))
       IN
       IF /\ Len(hd) + Len(tl) <= 7
          /\ \A i \in 1..Len(hd) : GroupOk(hd[i])
          /\ \A i \in 1..Len(tl) : GroupOk(tl[i])
       THEN Ok([fam |-> "V6",
                bits |-> GroupBits(hd) \o Zeros(16 * (8 - Len(hd) - Len(tl)))
                           \o GroupBits(tl)])
       ELSE Err("AddrParseError")

(* IpAddr::from_str *)
ParseIpAddr(s) ==
  LET v4 == ParseIpv4(s) IN IF v4.ok THEN v4 ELSE ParseIpv6(s)

---------------------------------------------------------------------------
(* struct CIDR *)

V4Bits == 32

V6Bits == 128

U8Mod == U8Max + 1

BitWidth(ip) == IF ip.fam = "V4" THEN V4Bits ELSE V6Bits

(* CIDR::from_str *)
CIDR_from_str(s) ==
  LET parts == split(s, "/") IN
  IF Len(parts) # 2 THEN Err("invalid CIDR")
  ELSE LET ip == ParseIpAddr(parts[1]) IN
       IF ~ip.ok THEN Err("invalid CIDR")
       ELSE LET netmask == ParseU8(parts[2]) IN
            IF ~netmask.ok THEN Err("invalid CIDR")
            ELSE Ok([ip |-> ip.val, netmask |-> netmask.val])

Returned(v) == [panic |-> FALSE, val |-> v]

Panicked == [panic |-> TRUE, val |-> FALSE]

(* The u8 expression `width - netmask` and its use as a shift distance.  *)
(* With overflow checks (a debug build) a negative difference and a      *)
(* distance of the full width both panic; without them (a release build) *)
(* the difference wraps modulo 2^8 and the distance is masked to the     *)
(* width of the shifted integer.                                         *)
ShiftDistance(width, netmask, b) ==
  LET diff == width - netmask IN
  IF b = "debug"
  THEN (IF diff < 0 \/ diff >= width THEN Panicked ELSE Returned(diff))
  ELSE Returned(((diff + U8Mod) % U8Mod) % width)

(* a >> d, as the bits that remain *)
Shr(bits, d) == SubSeq(bits, 1, Len(bits) - d)

(* contains without the test of the families: the bits are compared *)
(* whatever the two addresses are                                    *)
contains_any_family(cidr, ip, b) ==
  LET d == ShiftDistance(BitWidth(cidr.ip), cidr.netmask, b) IN
  IF d.panic THEN Panicked
  ELSE LET n == BitWidth(cidr.ip) - d.val
           m == IF n <= Len(ip.bits) THEN n ELSE Len(ip.bits)
       IN Returned(SubSeq(cidr.ip.bits, 1, m) = SubSeq(ip.bits, 1, m))

(* CIDR::contains *)
contains(cidr, ip, b) ==
  IF cidr.ip.fam # ip.fam THEN Returned(FALSE)
  ELSE LET d == ShiftDistance(BitWidth(ip), cidr.netmask, b) IN
       IF d.panic THEN Panicked
       ELSE Returned(Shr(cidr.ip.bits, d.val) = Shr(ip.bits, d.val))

---------------------------------------------------------------------------
(* process_filter: one line of a filter file *)

KwDeny == <<"d","e","n","y">>

KwPermit == <<"p","e","r","m","i","t">>

MinTokens == 6

(* The rule a line adds to the list, or None for a line that is skipped. *)
FilterRuleOf(text) ==
  IF text = << >> THEN None
  ELSE IF ~IsDecDigit(text[1]) THEN None
  ELSE LET line == split_whitespace(text) IN
       IF Len(line) < MinTokens THEN None
       ELSE IF line[2] # KwDeny /\ line[2] # KwPermit THEN None
       ELSE LET cidr == CIDR_from_str(line[3])
                min  == ParseU8(line[4])
                max  == ParseU8(line[5])
            IN
            IF ~cidr.ok \/ ~min.ok \/ ~max.ok THEN None
            ELSE Some([cidr |-> cidr.val, allow |-> (line[2] = KwPermit),
                       min |-> min.val, max |-> max.val])

---------------------------------------------------------------------------
(* process_entry *)

KwRoute == <<"r","o","u","t","e",":">>

KwRoute6 == <<"r","o","u","t","e","6",":">>

KwOrigin == <<"o","r","i","g","i","n",":">>

KwMaxLength == <<"m","a","x","-","l","e","n","g","t","h",":">>

NoFields == [prefix |-> None, asn |-> << >>, max_length |-> None, failed |-> FALSE]

(* the loop body with an origin that replaces the earlier ones *)
ScanLine_overwrite(text, st) ==
  IF text = << >> THEN st
  ELSE IF is_whitespace(text[1]) THEN st
  ELSE LET line == split_whitespace(to_ascii_lowercase(text)) IN
       IF Len(line) < 2 THEN st
       ELSE IF line[1] = KwRoute \/ line[1] = KwRoute6
            THEN [st EXCEPT !.prefix = Some(line[2])]
       ELSE IF line[1] = KwOrigin
            THEN [st EXCEPT !.asn = <<to_ascii_uppercase(line[2])>>]
       ELSE IF line[1] = KwMaxLength
            THEN LET n == ParseU8(line[2]) IN
                 IF n.ok THEN [st EXCEPT !.max_length = Some(n.val)]
                 ELSE [st EXCEPT !.failed = TRUE]
       ELSE st

(* the loop body with the prefix taken from the line as written *)
ScanLine_keep_case(text, st) ==
  IF text = << >> THEN st
  ELSE IF is_whitespace(text[1]) THEN st
  ELSE LET line == split_whitespace(to_ascii_lowercase(text))
           raw  == split_whitespace(text)
       IN
       IF Len(line) < 2 THEN st
       ELSE IF line[1] = KwRoute \/ line[1] = KwRoute6
            THEN [st EXCEPT !.prefix = Some(raw[2])]
       ELSE IF line[1] = KwOrigin
            THEN [st EXCEPT !.asn = Append(@, to_ascii_uppercase(line[2]))]
       ELSE IF line[1] = KwMaxLength
            THEN LET n == ParseU8(line[2]) IN
                 IF n.ok THEN [st EXCEPT !.max_length = Some(n.val)]
                 ELSE [st EXCEPT !.failed = TRUE]
       ELSE st

(* the body of the loop over the lines of a record *)
ScanLine(text, st) ==
  IF text = << >> THEN st
  ELSE IF is_whitespace(text[1]) THEN st
  ELSE LET line == split_whitespace(to_ascii_lowercase(text)) IN
       IF Len(line) < 2 THEN st
       ELSE IF line[1] = KwRoute \/ line[1] = KwRoute6
            THEN [st EXCEPT !.prefix = Some(line[2])]
       ELSE IF line[1] = KwOrigin
            THEN [st EXCEPT !.asn = Append(@, to_ascii_uppercase(line[2]))]
       ELSE IF line[1] = KwMaxLength
            THEN LET n == ParseU8(line[2]) IN
                 IF n.ok THEN [st EXCEPT !.max_length = Some(n.val)]
                 ELSE [st EXCEPT !.failed = TRUE]
       ELSE st

(* the loop: a max-length that does not parse returns at once *)
RECURSIVE ScanLines(_, _, _)
ScanLines(lines, i, st) ==
  IF i > Len(lines) \/ st.failed THEN st
  ELSE ScanLines(lines, i + 1, ScanLine(lines[i], st))

NoResolution == [kind |-> "None", at |-> 0, min |-> 0, max |-> 0]

(* the filter loop without its break: a later permit rule that contains *)
(* the address replaces the earlier one                                 *)
RECURSIVE resolve_from(_, _, _, _, _)
resolve_from(fs, addr, b, i, found) ==
  IF i > Len(fs) THEN found
  ELSE LET c == contains(fs[i].cidr, addr, b) IN
       IF c.panic THEN [NoResolution EXCEPT !.kind = "Panic", !.at = i]
       ELSE IF c.val
            THEN (IF ~fs[i].allow
                  THEN [NoResolution EXCEPT !.kind = "Excluded", !.at = i]
                  ELSE resolve_from(fs, addr, b, i + 1,
                                    [kind |-> "Allowed", at |-> i,
                                     min |-> fs[i].min, max |-> fs[i].max]))
       ELSE resolve_from(fs, addr, b, i + 1, found)

resolve_no_break(fs, addr, b, i) ==
  resolve_from(fs, addr, b, i, [NoResolution EXCEPT !.kind = "Rejected"])

(* the loop over the filter list: the first rule that contains the address *)
RECURSIVE resolve(_, _, _, _)
resolve(fs, addr, b, i) ==
  IF i > Len(fs) THEN [NoResolution EXCEPT !.kind = "Rejected"]
  ELSE LET c == contains(fs[i].cidr, addr, b) IN
       IF c.panic THEN [NoResolution EXCEPT !.kind = "Panic", !.at = i]
       ELSE IF c.val
            THEN (IF ~fs[i].allow
                  THEN [NoResolution EXCEPT !.kind = "Excluded", !.at = i]
                  ELSE [kind |-> "Allowed", at |-> i,
                        min |-> fs[i].min, max |-> fs[i].max])
       ELSE resolve(fs, addr, b, i + 1)

(* the clamp with the lower bound tested first *)
clamp_min_first(max_length, min, max) ==
  IF IsSome(max_length)
  THEN (IF max_length[1] < min THEN min
        ELSE IF max_length[1] > max THEN max
        ELSE max_length[1])
  ELSE max

(* the effective max length *)
clamp(max_length, min, max) ==
  IF IsSome(max_length)
  THEN (IF max_length[1] > max THEN max
        ELSE IF max_length[1] < min THEN min
        ELSE max_length[1])
  ELSE max

(* the ROAs of a record that passed: one per origin, in order *)
MakeRoas(prefix, max_length, asn) ==
  [i \in 1..Len(asn) |-> [prefix |-> prefix, max_length |-> max_length, asn |-> asn[i]]]

NoEntry ==
  [result |-> "none", err |-> "", roas |-> << >>, text |-> << >>,
   prefix |-> None, asn |-> << >>, declared |-> None,
   addr |-> None, netmask |-> None, res |-> NoResolution, eff |-> None]

(* process_entry after the loop over the lines, up to the parsed prefix: *)
(* the locals when it fails (result "err"), or all of them (result       *)
(* "none": not returned yet).                                            *)
parse_prefix(text, st) ==
  LET e0 == [NoEntry EXCEPT !.text = text, !.prefix = st.prefix,
                            !.asn = st.asn, !.declared = st.max_length]
  IN
  IF st.failed THEN [e0 EXCEPT !.result = "err", !.err = "ParseIntError"]
  ELSE IF ~IsSome(st.prefix)
       THEN [e0 EXCEPT !.result = "err", !.err = "no route specified"]
  ELSE
  LET prefix_parts == split(st.prefix[1], "/") IN
  IF Len(prefix_parts) # 2 THEN [e0 EXCEPT !.result = "err", !.err = "invalid CIDR"]
  ELSE
  LET addr == ParseIpAddr(prefix_parts[1]) IN
  IF ~addr.ok THEN [e0 EXCEPT !.result = "err", !.err = "AddrParseError"]
  ELSE
  LET netmask == ParseU8(prefix_parts[2]) IN
  IF ~netmask.ok
  THEN [e0 EXCEPT !.addr = Some(addr.val), !.result = "err", !.err = "ParseIntError"]
  ELSE [e0 EXCEPT !.addr = Some(addr.val), !.netmask = Some(netmask.val)]

(* process_entry from the text of the record to its parsed prefix *)
parse_entry(text) == parse_prefix(text, ScanLines(split(text, "\n"), 1, NoFields))

(* the rest with a record longer than its effective max emitted *)
emit_no_length_check(e1, res) ==
  LET e2 == [e1 EXCEPT !.res = res] IN
  IF res.kind = "Panic" THEN [e2 EXCEPT !.result = "panic"]
  ELSE IF res.kind = "Excluded" THEN [e2 EXCEPT !.result = "ok"]
  ELSE IF res.kind = "Rejected"
       THEN [e2 EXCEPT !.result = "err", !.err = "invalid range"]
  ELSE
  LET max_length == clamp(e1.declared, res.min, res.max) IN
  [e2 EXCEPT !.eff = Some(max_length), !.result = "ok",
             !.roas = MakeRoas(e1.prefix[1], max_length, e1.asn)]

(* the rest with a record shorter than the rule's min dropped as well *)
emit_min_check(e1, res) ==
  LET e2 == [e1 EXCEPT !.res = res] IN
  IF res.kind = "Panic" THEN [e2 EXCEPT !.result = "panic"]
  ELSE IF res.kind = "Excluded" THEN [e2 EXCEPT !.result = "ok"]
  ELSE IF res.kind = "Rejected"
       THEN [e2 EXCEPT !.result = "err", !.err = "invalid range"]
  ELSE
  LET max_length == clamp(e1.declared, res.min, res.max) IN
  IF e1.netmask[1] > max_length \/ e1.netmask[1] < res.min
  THEN [e2 EXCEPT !.eff = Some(max_length), !.result = "ok"]
  ELSE [e2 EXCEPT !.eff = Some(max_length), !.result = "ok",
                  !.roas = MakeRoas(e1.prefix[1], max_length, e1.asn)]

(* process_entry after the filter loop, which gave res: the drop of a   *)
(* denied record, the error of one no rule contains, the clamp, the    *)
(* drop of a record that is too long, and the ROAs.                    *)
emit(e1, res) ==
  LET e2 == [e1 EXCEPT !.res = res] IN
  IF res.kind = "Panic" THEN [e2 EXCEPT !.result = "panic"]
  ELSE IF res.kind = "Excluded" THEN [e2 EXCEPT !.result = "ok"]
  ELSE IF res.kind = "Rejected"
       THEN [e2 EXCEPT !.result = "err", !.err = "invalid range"]
  ELSE
  LET max_length == clamp(e1.declared, res.min, res.max) IN
  IF e1.netmask[1] > max_length
  THEN [e2 EXCEPT !.eff = Some(max_length), !.result = "ok"]
  ELSE [e2 EXCEPT !.eff = Some(max_length), !.result = "ok",
                  !.roas = MakeRoas(e1.prefix[1], max_length, e1.asn)]

(* process_entry from the filter loop on; a record that did not parse *)
(* has returned its error                                            *)
reconcile(e1, fs, b) ==
  IF e1.result = "err" THEN e1 ELSE emit(e1, resolve(fs, e1.addr[1], b, 1))

---------------------------------------------------------------------------
(* The registry: the lines a filter file can hold and the route objects a *)
(* directory can hold.                                                    *)

RECURSIVE Join(_, _)
Join(pieces, sep) ==
  IF pieces = << >> THEN << >>
  ELSE IF Len(pieces) = 1 THEN pieces[1]
  ELSE pieces[1] \o <<sep>> \o Join(Tail(pieces), sep)

Net10     == <<"1","0",".","0",".","0",".","0","/","8">>
Net10Hi   == <<"1","0",".","1","2","8",".","0",".","0","/","9">>
NetAny4   == <<"0",".","0",".","0",".","0","/","0">>
Net10Over == <<"1","0",".","0",".","0",".","0","/","3","3">>
NetFd     == <<"f","d","0","0",":",":","/","8">>
NetFd1    == <<"f","d","0","0",":","1",":",":","/","3","2">>
NetAny6   == <<":",":","/","0">>
NetFdOver == <<"f","d","0","0",":",":","/","1","2","9">>

FilterLine(seq, action, cidr, min, max) ==
  Join(<<seq, action, cidr, min, max, <<"#">> >>, " ")

(* lines of data/filter.txt that add a rule *)
FilterTxtRules ==
  { FilterLine(<<"1">>, KwPermit, Net10, <<"1","6">>, <<"2","4">>),
    FilterLine(<<"2">>, KwDeny, Net10Hi, <<"0">>, <<"3","2">>),
    FilterLine(<<"3">>, KwPermit, Net10, <<"2","8">>, <<"2","0">>),
    FilterLine(<<"4">>, KwDeny, NetAny4, <<"0">>, <<"3","2">>),
    FilterLine(<<"5">>, KwPermit, Net10Over, <<"8">>, <<"3","2">>),
    FilterLine(<<"6">>, KwPermit, NetFd, <<"4","4">>, <<"6","4">>) }

(* lines of data/filter6.txt that add a rule *)
Filter6TxtRules ==
  { FilterLine(<<"1">>, KwPermit, NetFd, <<"4","4">>, <<"6","4">>),
    FilterLine(<<"2">>, KwDeny, NetFd1, <<"0">>, <<"1","2","8">>),
    FilterLine(<<"3">>, KwDeny, NetAny6, <<"0">>, <<"1","2","8">>),
    FilterLine(<<"4">>, KwPermit, NetFdOver, <<"0">>, <<"1","2","8">>),
    FilterLine(<<"5">>, KwPermit, Net10, <<"2","0">>, <<"3","2">>) }

(* lines of either file that are skipped *)
SkippedLines ==
  { << >>,
    <<"#"," ","r","u","l","e","s">>,
    <<" ">> \o FilterLine(<<"1">>, KwPermit, Net10, <<"1","6">>, <<"2","4">>),
    Join(<<<<"7">>, KwPermit, Net10, <<"1","6">>, <<"2","4">>>>, " "),
    FilterLine(<<"7">>, <<"a","l","l","o","w">>, Net10, <<"1","6">>, <<"2","4">>),
    FilterLine(<<"7">>, to_ascii_uppercase(KwPermit), Net10, <<"1","6">>, <<"2","4">>),
    FilterLine(<<"7">>, KwPermit, <<"1","0",".","0",".","0",".","0">>, <<"1","6">>, <<"2","4">>),
    FilterLine(<<"7">>, KwPermit, <<"1","0",".","0",".","0","/","8">>, <<"1","6">>, <<"2","4">>),
    FilterLine(<<"7">>, KwPermit, <<"1","0",".","0",".","0",".","0","/","2","5","6">>,
               <<"1","6">>, <<"2","4">>),
    FilterLine(<<"7">>, KwPermit, Net10, <<"x">>, <<"2","4">>),
    FilterLine(<<"7">>, KwPermit, Net10, <<"1","6">>, <<"2","5","6">>) }

FilterTxt == FilterTxtRules \cup SkippedLines

Filter6Txt == Filter6TxtRules \cup SkippedLines

Field(kw, value) == kw \o <<" ">> \o value

Object(lines) == Join(lines, "\n")

AS100 == <<"A","S","1","0","0">>
AS200 == <<"A","S","2","0","0">>

(* route objects of data/route *)
RouteTexts ==
  { Object(<<Field(to_ascii_uppercase(KwRoute), <<"1","0",".","1",".","0",".","0","/","2","0">>),
             Field(KwOrigin, AS100), << >>>>),
    Object(<<Field(KwRoute, <<"1","0",".","1","2","8",".","0",".","0","/","1","6">>),
             <<" ">> \o Field(KwOrigin, AS200),
             Field(KwOrigin, to_ascii_lowercase(AS100)),
             <<"r","e","m","a","r","k","s",":">>,
             Field(KwOrigin, AS200),
             Field(KwOrigin, AS100),
             Field(KwMaxLength, <<"3","0">>)>>),
    Object(<<Field(KwMaxLength, <<"1","0">>),
             Field(KwRoute, <<"1","0",".","1",".","0",".","0","/","1","2">>),
             Field(KwOrigin, AS100)>>),
    Object(<<Field(KwRoute, <<"1","0",".","1",".","0",".","0","/","2","2">>),
             Field(KwOrigin, AS200),
             Field(KwMaxLength, <<"2","2">>)>>),
    Object(<<Field(KwRoute, <<"1","0",".","1",".","0",".","0","/","2","6">>),
             Field(KwOrigin, AS100)>>),
    Object(<<Field(KwRoute, <<"1","9","2",".","0",".","2",".","0","/","2","4">>),
             Field(KwOrigin, AS100)>>),
    Object(<<Field(KwOrigin, AS100)>>),
    Object(<<Field(KwRoute, <<"1","0",".","1",".","0",".","0","/","2","0">>),
             Field(KwMaxLength, <<"a","b","c">>),
             Field(KwOrigin, AS100)>>),
    Object(<<Field(KwRoute, <<"1","0",".","1",".","0",".","0">>),
             Field(KwOrigin, AS100)>>) }

(* route objects of data/route6 *)
Route6Texts ==
  { Object(<<Field(KwRoute6, <<"F","D","0","0",":","A","B",":",":","/","4","8">>),
             Field(KwOrigin, AS100),
             Field(KwMaxLength, <<"4","8">>)>>),
    Object(<<Field(KwRoute6, <<"f","d","0","0",":","1",":",":","/","4","8">>),
             Field(KwOrigin, AS100), Field(KwOrigin, AS200)>>),
    Object(<<Field(KwRoute6, <<"2","0","0","1",":","d","b","8",":",":","/","3","2">>),
             Field(KwOrigin, AS200)>>),
    Object(<<Field(KwRoute6, <<"f","d","0","0",":",":","/","x">>),
             Field(KwOrigin, AS200)>>) }

(* FilterRuleOf and parse_entry depend on the text alone: their values *)
(* on the registry's lines and route objects.                          *)
RuleOfLine == [text \in FilterTxt \cup Filter6Txt |-> FilterRuleOf(text)]

ParsedEntry == [text \in RouteTexts \cup Route6Texts |-> parse_entry(text)]

(* The locals of process_entry when it returns: result is "ok" with the *)
(* ROAs, "err" with the error, or "panic".                              *)
process_entry(file, fs, b) ==
  IF ~file.readable THEN [NoEntry EXCEPT !.result = "err", !.err = "io"]
  ELSE reconcile(ParsedEntry[file.text], fs, b)

Unreadable == [readable |-> FALSE, text |-> << >>]

DirEntries(texts) == {Unreadable} \cup {[readable |-> TRUE, text |-> t] : t \in texts}

Clock == {1700000000}

Builds == {"debug", "release"}

---------------------------------------------------------------------------
(* Bounds of the model *)

MaxRules == 2

MaxFiles == 1

---------------------------------------------------------------------------
(* main *)

ValidFor == 7 * 24 * 60 * 60

NoProbe == [active |-> FALSE]

Init ==
  /\ build \in Builds
  /\ pc = "filter"
  /\ filters = << >>
  /\ roas = << >>
  /\ errors = 0
  /\ nread = 0
  /\ last = NoEntry
  /\ output = None
  /\ probe = NoProbe

(* fs::read_to_string of a filter file succeeds *)
ReadFilter ==
  /\ pc \in {"filter", "filter6"}
  /\ pc' = IF pc = "filter" THEN "filter_lines" ELSE "filter6_lines"
  /\ UNCHANGED <<build, filters, roas, errors, nread, last, output, probe>>

(* fs::read_to_string of a filter file fails: main returns the error *)
ReadFilterFails ==
  /\ pc \in {"filter", "filter6"}
  /\ pc' = "fatal"
  /\ UNCHANGED <<build, filters, roas, errors, nread, last, output, probe>>

(* one iteration of the loop of process_filter *)
ProcessFilterLine ==
  /\ pc \in {"filter_lines", "filter6_lines"}
  /\ Len(filters) < MaxRules
  /\ \E text \in (IF pc = "filter_lines" THEN FilterTxt ELSE Filter6Txt) :
       LET rule == RuleOfLine[text] IN
       filters' = IF IsSome(rule) THEN Append(filters, rule[1]) ELSE filters
  /\ UNCHANGED <<build, pc, roas, errors, nread, last, output, probe>>

(* the loop of process_filter ends *)
FilterDone ==
  /\ pc \in {"filter_lines", "filter6_lines"}
  /\ pc' = IF pc = "filter_lines" THEN "filter6" ELSE "route"
  /\ UNCHANGED <<build, filters, roas, errors, nread, last, output, probe>>

(* fs::read_dir succeeds *)
ReadDir ==
  /\ pc \in {"route", "route6"}
  /\ pc' = IF pc = "route" THEN "route_files" ELSE "route6_files"
  /\ nread' = 0
  /\ UNCHANGED <<build, filters, roas, errors, last, output, probe>>

(* fs::read_dir fails: main returns the error *)
ReadDirFails ==
  /\ pc \in {"route", "route6"}
  /\ pc' = "fatal"
  /\ UNCHANGED <<build, filters, roas, errors, nread, last, output, probe>>

(* the match with an error of one entry returned from main *)
Collect_abort(e) ==
  /\ last' = e
  /\ nread' = nread + 1
  /\ pc' = IF e.result = "panic" THEN "panicked"
           ELSE IF e.result = "err" THEN "fatal" ELSE pc
  /\ roas' = IF e.result = "ok" THEN roas \o e.roas ELSE roas
  /\ errors' = IF e.result = "err" THEN errors + 1 ELSE errors

(* The match on what process_entry returned: the entry's ROAs are      *)
(* appended, or its error is printed and the loop goes on; a panic     *)
(* ends the process.                                                   *)
Collect(e) ==
  /\ last' = e
  /\ IF e.result = "panic"
     THEN pc' = "panicked" /\ UNCHANGED <<roas, errors, nread>>
     ELSE /\ pc' = pc
          /\ nread' = nread + 1
          /\ roas' = IF e.result = "ok" THEN roas \o e.roas ELSE roas
          /\ errors' = IF e.result = "err" THEN errors + 1 ELSE errors

(* one iteration of the loop of process_directory *)
ProcessEntry ==
  /\ pc \in {"route_files", "route6_files"}
  /\ nread < MaxFiles
  /\ \E file \in DirEntries(IF pc = "route_files" THEN RouteTexts ELSE Route6Texts) :
       Collect(process_entry(file, filters, build))
  /\ UNCHANGED <<build, filters, output, probe>>

(* the loop of process_directory over data/route ends *)
RouteDone ==
  /\ pc = "route_files"
  /\ pc' = "route6"
  /\ UNCHANGED <<build, filters, roas, errors, nread, last, output, probe>>

Dataset(now) ==
  [metadata |-> [counts |-> Len(roas), generated |-> now, valid |-> now + ValidFor],
   roas |-> roas]

(* the loop over data/route6 ends, the data set is assembled and written *)
WriteOutput ==
  /\ pc = "route6_files"
  /\ \E now \in Clock : output' = Some(Dataset(now))
  /\ pc' = "done"
  /\ UNCHANGED <<build, filters, roas, errors, nread, last, probe>>

(* fs::write fails: main returns the error *)
WriteFails ==
  /\ pc = "route6_files"
  /\ pc' = "fatal"
  /\ UNCHANGED <<build, filters, roas, errors, nread, last, output, probe>>

Next ==
  \/ ReadFilter
  \/ ReadFilterFails
  \/ ProcessFilterLine
  \/ FilterDone
  \/ ReadDir
  \/ ReadDirFails
  \/ ProcessEntry
  \/ RouteDone
  \/ WriteOutput
  \/ WriteFails

Spec == Init /\ [][Next]_vars

---------------------------------------------------------------------------
(* CIDR::contains on its own: a CIDR and an address are drawn, and the *)
(* test is applied to them.                                            *)

V4ProbeBits == {1, 2, 8, 9, 16, 24, 31, 32}

V6ProbeBits == {1, 2, 64, 65, 127, 128}

AddrOfBits(fam, width, ones) ==
  [fam |-> fam, bits |-> [i \in 1..width |-> IF i \in ones THEN 1 ELSE 0]]

ProbeAddrs ==
  {AddrOfBits("V4", V4Bits, ones) :
     ones \in {{}, V4ProbeBits} \cup {{k} : k \in V4ProbeBits}}
  \cup
  {AddrOfBits("V6", V6Bits, ones) :
     ones \in {{}, V6ProbeBits} \cup {{k} : k \in V6ProbeBits}}

ProbeMasks == 0..(V6Bits + 1) \cup {U8Max}

InitContains ==
  /\ build \in Builds
  /\ pc = "contains"
  /\ filters = << >>
  /\ roas = << >>
  /\ errors = 0
  /\ nread = 0
  /\ last = NoEntry
  /\ output = None
  /\ \E a \in ProbeAddrs, ip \in ProbeAddrs, n \in ProbeMasks :
       probe = [active |-> TRUE, done |-> FALSE,
                cidr |-> [ip |-> a, netmask |-> n], ip |-> ip, res |-> Panicked]

ContainsStep ==
  /\ pc = "contains"
  /\ ~probe.done
  /\ probe' = [probe EXCEPT !.done = TRUE, !.res = contains(probe.cidr, probe.ip, build)]
  /\ UNCHANGED <<build, pc, filters, roas, errors, nread, last, output>>

NextContains == ContainsStep

SpecContains == InitContains /\ [][NextContains]_vars

---------------------------------------------------------------------------
(* Properties.  `last` holds the locals of the latest process_entry, and *)
(* the filter list is no longer changed once the directories are read.  *)

(* the latest record parsed, and the filter loop ran on its address *)
Resolving == IsSome(last.netmask)

(* CIDR::contains returned true, or false, for rule i and the address *)
Hit(i) ==
  LET c == contains(filters[i].cidr, last.addr[1], build) IN ~c.panic /\ c.val

Miss(i) ==
  LET c == contains(filters[i].cidr, last.addr[1], build) IN ~c.panic /\ ~c.val

(* what a rule decides on its own *)
RuleOutcome(f) ==
  IF f.allow THEN <<"Allowed", f.min, f.max>> ELSE <<"Excluded", 0, 0>>

OutcomeOf(res) == <<res.kind, res.min, res.max>>

(* C1: filter resolution is first-match.  When rule i contains the        *)
(* record's address and no rule before it does, the outcome is the one of *)
(* rule i alone (a deny rule drops the record without an error, a permit  *)
(* rule gives Allowed(min, max)), whatever the rules after i are; when no *)
(* rule contains the address the outcome is Rejected, a per-record error. *)
C1_FirstMatch ==
  Resolving =>
    /\ \A i \in 1..Len(filters) :
         (Hit(i) /\ \A k \in 1..(i - 1) : Miss(k)) =>
           /\ OutcomeOf(last.res) = RuleOutcome(filters[i])
           /\ (~filters[i].allow => last.result = "ok" /\ last.roas = << >>)
    /\ (\A k \in 1..Len(filters) : Miss(k)) =>
         /\ OutcomeOf(last.res) = <<"Rejected", 0, 0>>
         /\ last.result = "err"
         /\ last.roas = << >>

(* a first rule that permits, followed by a rule that also contains the *)
(* address and denies                                                   *)
C1_Witness ==
  /\ Resolving
  /\ \E i, j \in 1..Len(filters) :
       /\ i < j
       /\ Hit(i) /\ Hit(j)
       /\ \A k \in 1..(i - 1) : Miss(k)
       /\ filters[i].allow /\ ~filters[j].allow
       /\ last.res.kind = "Allowed"
       /\ last.roas # << >>

(* the top n bits of two addresses of one family are equal *)
TopBitsEqual(a, b, n) == \A i \in 1..n : a.bits[i] = b.bits[i]

(* C2: contains depends only on the top N bits.  For every prefix length  *)
(* N from 0 to the family's bit width and two addresses of one family,    *)
(* contains returns true exactly when their top N bits are equal (N = 0   *)
(* contains every address); across families it returns false.            *)
C2_ContainsTopBits ==
  (probe.active /\ probe.done) =>
    IF probe.cidr.ip.fam # probe.ip.fam
    THEN probe.res = Returned(FALSE)
    ELSE (probe.cidr.netmask <= BitWidth(probe.ip) =>
            probe.res = Returned(TopBitsEqual(probe.cidr.ip, probe.ip, probe.cidr.netmask)))

(* C8: every CIDR of the filter list has a prefix length within its *)
(* family's bit width: a line with a longer one adds no rule.       *)
C8_PrefixLengthInWidth ==
  \A i \in 1..Len(filters) : filters[i].cidr.netmask <= BitWidth(filters[i].cidr.ip)

(* the rules of one family, in their order in the list *)
OfFamily(fs, fam) ==
  LET Same(f) == f.cidr.ip.fam = fam IN SelectSeq(fs, Same)

(* C9: resolving an address against the single list of all rules gives *)
(* the outcome of resolving it against the rules of its own family, in *)
(* their original order.                                               *)
C9_FamilyTable ==
  Resolving =>
    OutcomeOf(last.res)
      = OutcomeOf(resolve(OfFamily(filters, last.addr[1].fam), last.addr[1], build, 1))

(* a rule of the other family stands before the rule that decided *)
C9_Witness ==
  /\ Resolving
  /\ last.res.kind \in {"Allowed", "Excluded"}
  /\ \E k \in 1..(last.res.at - 1) : filters[k].cidr.ip.fam # last.addr[1].fam

(* a step of the directory loop that went on to the next entry *)
EntryReturned == nread' = nread + 1

(* the rule the latest record resolved to *)
MatchedRule == filters[last.res.at]

(* C3 as stated: the effective max length is min if d < min, max if *)
(* d > max, d otherwise, and the rule's max when none is declared,   *)
(* for every rule the list can hold.                                *)
C3_ClampAsStated ==
  IsSome(last.eff) =>
    LET r == MatchedRule
        e == last.eff[1]
    IN
    IF IsSome(last.declared)
    THEN LET d == last.declared[1] IN
         /\ d < r.min => e = r.min
         /\ d > r.max => e = r.max
         /\ (~(d < r.min) /\ ~(d > r.max)) => e = d
    ELSE e = r.max

(* C3, amended: the effective max length is max if d > max, otherwise   *)
(* min if d < min, otherwise d, and the rule's max when none is         *)
(* declared; every ROA of the record carries it.                        *)
C3_Clamp ==
  IsSome(last.eff) =>
    LET r == MatchedRule
        e == last.eff[1]
    IN
    /\ last.res.kind = "Allowed"
    /\ IF IsSome(last.declared)
       THEN LET d == last.declared[1] IN
            e = (IF d > r.max THEN r.max ELSE IF d < r.min THEN r.min ELSE d)
       ELSE e = r.max
    /\ \A i \in 1..Len(last.roas) : last.roas[i].max_length = e

(* a declared length below the min and above the max of its rule *)
C3_Witness ==
  /\ IsSome(last.eff)
  /\ IsSome(last.declared)
  /\ last.declared[1] < MatchedRule.min
  /\ last.declared[1] > MatchedRule.max
  /\ last.eff[1] = MatchedRule.max

(* the record resolved to a deny rule, or is longer than its effective *)
(* max length                                                          *)
Dropped(e) ==
  \/ e.res.kind = "Excluded"
  \/ IsSome(e.eff) /\ e.netmask[1] > e.eff[1]

(* C4: a record that resolves to a deny rule, or whose own prefix length *)
(* exceeds the effective max length, yields no ROA and no error: the     *)
(* output is unchanged and the scan goes on.                             *)
C4_SilentDrop ==
  [][(EntryReturned /\ Dropped(last')) =>
       /\ last'.result = "ok"
       /\ last'.roas = << >>
       /\ roas' = roas
       /\ errors' = errors
       /\ pc' = pc]_vars

(* a record with origins was denied after ROAs were emitted, and the *)
(* run wrote its output                                              *)
C4_Witness ==
  /\ last.res.kind = "Excluded"
  /\ last.asn # << >>
  /\ roas # << >>
  /\ errors = 0
  /\ pc = "done"

(* C5: a record that fails (unreadable, a max-length that is no integer, *)
(* no route line, a malformed prefix, an address no rule contains) is an *)
(* error of that record alone: it adds nothing to the output, it is      *)
(* reported, and the loop goes on with the next entry.                   *)
C5_FailureIsolated ==
  [][EntryReturned =>
       /\ (~IsSome(last'.netmask) \/ last'.res.kind = "Rejected") => last'.result = "err"
       /\ last'.result = "err" =>
            /\ last'.roas = << >>
            /\ roas' = roas
            /\ errors' = errors + 1
            /\ pc' = pc
            /\ nread' <= MaxFiles]_vars

(* a record failed, a later one gave ROAs, and the run wrote them *)
C5_Witness ==
  /\ errors > 0
  /\ last.result = "ok"
  /\ last.roas # << >>
  /\ pc = "done"
  /\ IsSome(output)
  /\ output[1].metadata.counts = Len(last.roas)

(* the lines of a record that are not skipped, as their tokens *)
FieldsOf(text) ==
  LET Kept(l) == l # << >> /\ ~is_whitespace(l[1]) /\ Len(split_whitespace(l)) >= 2
      lines   == SelectSeq(split(text, "\n"), Kept)
  IN [i \in 1..Len(lines) |-> split_whitespace(lines[i])]

(* the origin tokens of a record as written, in the order of its lines *)
OriginsOf ==
  [text \in RouteTexts \cup Route6Texts |->
     LET IsOrigin(f) == to_ascii_lowercase(f[1]) = KwOrigin
         fields      == SelectSeq(FieldsOf(text), IsOrigin)
     IN [i \in 1..Len(fields) |-> fields[i][2]]]

(* the prefix token of a record as written in its last route line *)
WrittenPrefixOf ==
  [text \in RouteTexts \cup Route6Texts |->
     LET IsRoute(f) == to_ascii_lowercase(f[1]) \in {KwRoute, KwRoute6}
         fields     == SelectSeq(FieldsOf(text), IsRoute)
     IN IF fields = << >> THEN None ELSE Some(fields[Len(fields)][2])]

(* the record was permitted and is not longer than its effective max *)
Survives(e) == IsSome(e.eff) /\ e.netmask[1] <= e.eff[1]

(* C6: a record that survives and has k origin lines adds exactly k     *)
(* ROAs to the output, one per origin line in the order of the lines, a *)
(* repeated ASN included, all with the record's prefix and effective    *)
(* max length.                                                          *)
C6_Multiplicity ==
  [][(EntryReturned /\ Survives(last')) =>
       LET origins == OriginsOf[last'.text] IN
       /\ Len(roas') = Len(roas) + Len(origins)
       /\ SubSeq(roas', 1, Len(roas)) = roas
       /\ \A i \in 1..Len(origins) :
            /\ roas'[Len(roas) + i].asn = to_ascii_uppercase(origins[i])
            /\ roas'[Len(roas) + i].prefix = last'.prefix[1]
            /\ roas'[Len(roas) + i].max_length = last'.eff[1]]_vars

(* a record with a repeated origin gave one ROA per origin line *)
C6_Witness ==
  /\ Survives(last)
  /\ Len(last.roas) >= 3
  /\ \E i, j \in 1..Len(last.roas) : i < j /\ last.roas[i].asn = last.roas[j].asn
  /\ \E i, j \in 1..Len(last.roas) : last.roas[i].asn # last.roas[j].asn

OwnLength(prefix) == ParseU8(split(prefix, "/")[2]).val

(* C10: every ROA of the output has a maxLength not below its own prefix *)
(* length; the ROAs of a record matched by a rule with min <= max have a *)
(* maxLength within [min, max]; and a permitted record that is not       *)
(* longer than its effective max length is emitted, whether or not it is *)
(* shorter than the rule's min.                                          *)
C10_OutputBounds ==
  /\ \A i \in 1..Len(roas) : OwnLength(roas[i].prefix) <= roas[i].max_length
  /\ (last.roas # << >> /\ MatchedRule.min <= MatchedRule.max) =>
       \A i \in 1..Len(last.roas) :
         /\ MatchedRule.min <= last.roas[i].max_length
         /\ last.roas[i].max_length <= MatchedRule.max
  /\ (IsSome(last.eff) /\ last.netmask[1] <= last.eff[1]) =>
       Len(last.roas) = Len(last.asn)

(* a record shorter than the min of its rule was emitted *)
C10_Witness ==
  /\ last.roas # << >>
  /\ MatchedRule.min <= MatchedRule.max
  /\ last.netmask[1] < MatchedRule.min
  /\ roas # << >>

=============================================================================
